---- MODULE Spec2Model ----
(***************************************************************************)
(* vcd-merger (src/src/main.rs): parse_headers, find_sections and          *)
(* write_output as a state machine over byte-level input files.            *)
(*                                                                         *)
(* A byte is its ASCII code.  A line is a sequence of bytes without its    *)
(* terminating '\n'; a file is the sequence of its '\n'-terminated lines.  *)
(* An offset into a file is the index of the line that starts there        *)
(* (1-based), so a slice file[a..b] is the lines a .. b-1.                 *)
(***************************************************************************)
EXTENDS Integers, Sequences, FiniteSets, Bags, TLC

(***************************************************************************)
(* Bounds of the model.                                                    *)
(***************************************************************************)
\* u64 is modelled as an unsigned integer of WordBits bits.
WordBits == 8
\* Stands for the factor 1_000 between neighbouring units (main.rs:194),
\* reduced so that the unit ladder fits the word.
Kilo == 2
\* The last digit of next_code's alphabet, 0x7E in the source (main.rs:116).
LastCodeByte == 34
\* The number of bytes of an IdCode, 4 in the source (main.rs:10).
CodeWidth == 2
\* Largest length of the word a command line of the merge domain is written as.
MaxSize == 6
\* Largest number N of a $timescale directive in the timescale domain.
MaxScaleNumber == 3
\* Largest number of input files in the declaration domain.
MaxDeclFiles == 4

(***************************************************************************)
(* Program constants.                                                      *)
(***************************************************************************)
FirstCodeByte == 33

Word == 2 ^ WordBits

\* Byte literals of the source.
B == [hash |-> 35, dollar |-> 36, space |-> 32, b |-> 98, r |-> 114,
      zero |-> 48, nine |-> 57, f |-> 102, p |-> 112, n |-> 110, m |-> 109,
      s |-> 115, u |-> 117]

TokDate == <<36, 100, 97, 116, 101>>  \* "$date"
TokVersion == <<36, 118, 101, 114, 115, 105, 111, 110>>  \* "$version"
TokTimescale == <<36, 116, 105, 109, 101, 115, 99, 97, 108, 101>>  \* "$timescale"
TokScope == <<36, 115, 99, 111, 112, 101>>  \* "$scope"
TokVar == <<36, 118, 97, 114>>  \* "$var"
TokUpscope == <<36, 117, 112, 115, 99, 111, 112, 101>>  \* "$upscope"
TokEnddefinitions == <<36, 101, 110, 100, 100, 101, 102, 105, 110, 105, 116, 105, 111, 110, 115>>  \* "$enddefinitions"
TokDumpvars == <<36, 100, 117, 109, 112, 118, 97, 114, 115>>  \* "$dumpvars"
TokEnd == <<36, 101, 110, 100>>  \* "$end"

(***************************************************************************)
(* Generic sequence helpers (slices, str::find, Iterator::position).       *)
(***************************************************************************)
\* Op applied to the value of e: e is evaluated once, as a `let` binding is.
With(e, Op(_)) == CHOOSE y \in {Op(x) : x \in {e}} : TRUE

\* s[a..] of Rust with 1-based a: the elements a .. Len(s).
From(s, a) == SubSeq(s, a, Len(s))

\* The least element of a non-empty set of numbers.
Least(hits) == CHOOSE i \in hits : \A j \in hits : i <= j

\* The least index i >= a of s with s[i] in S, or 0 when there is none.
FindIn(s, a, S) ==
    With({i \in a..Len(s) : s[i] \in S},
         LAMBDA hits : IF hits = {} THEN 0 ELSE Least(hits))

\* The least index i >= a of s with s[i] not in S, or 0 when there is none.
FindNotIn(s, a, S) ==
    With({i \in a..Len(s) : s[i] \notin S},
         LAMBDA hits : IF hits = {} THEN 0 ELSE Least(hits))

RECURSIVE Concat(_)
Concat(ss) == IF ss = <<>> THEN <<>> ELSE Head(ss) \o Concat(Tail(ss))

\* The natural number a sequence of decimal digits denotes, unbounded.
RECURSIVE DecimalValue(_)
DecimalValue(s) ==
    IF s = <<>> THEN 0
    ELSE DecimalValue(SubSeq(s, 1, Len(s) - 1)) * 10 + (s[Len(s)] - B.zero)

(***************************************************************************)
(* u64 arithmetic: the wrapped value and whether the exact result left the *)
(* word (a panic when the build checks overflow, a wrap when it does not). *)
(***************************************************************************)
MulU64(a, b) == [v |-> (a * b) % Word, ovf |-> a * b >= Word]

Digits == B.zero .. B.nine
is_ascii_digit(b) == b \in Digits
WhiteSpace == {32, 9, 10, 12, 13}

\* One iteration of the loop of parse_u64 on byte b, p the result so far.
ParseDigit(p, b) ==
    IF ~p.ok \/ ~is_ascii_digit(b) THEN [ok |-> FALSE, v |-> 0, ovf |-> p.ovf]
    ELSE [ok |-> TRUE, v |-> (p.v * 10 + (b - B.zero)) % Word,
          ovf |-> p.ovf \/ p.v * 10 + (b - B.zero) >= Word]

\* fn parse_u64: ok is FALSE for Err(()); ovf tells that value * 10 + digit
\* overflowed at some step.
RECURSIVE parse_u64(_)
parse_u64(s) ==
    IF s = <<>> THEN [ok |-> TRUE, v |-> 0, ovf |-> FALSE]
    ELSE With(parse_u64(SubSeq(s, 1, Len(s) - 1)), LAMBDA p : ParseDigit(p, s[Len(s)]))

\* fn u64_to_bytes: the digits are produced while value > 0, last digit first,
\* into the tail of the buffer.
RECURSIVE u64_to_bytes(_)
u64_to_bytes(value) ==
    IF value > 0
    THEN u64_to_bytes(value \div 10) \o <<(value % 10) + B.zero>>
    ELSE <<>>

\* format!("{}", x) of a u64: the decimal digits, "0" for zero.
FormatU64(x) == IF x = 0 THEN <<B.zero>> ELSE u64_to_bytes(x)

\* fn gcd (the assert holds at every call: timescales are non-zero).
RECURSIVE gcd(_, _)
gcd(n, m) ==
    IF m = 0 THEN n
    ELSE With(IF m < n THEN <<m, n>> ELSE <<n, m>>,
              LAMBDA nm : With(nm[2] % nm[1], LAMBDA m1 : gcd(nm[1], m1)))

(***************************************************************************)
(* IdCode and the code allocator.                                          *)
(***************************************************************************)
\* IdCode([0; 4])
ZeroCode == [i \in 1..CodeWidth |-> 0]

\* impl From<&[u8]> for IdCode: code[i] = s[i]; indexing past the array panics.
IdCodeFits(s) == Len(s) <= CodeWidth
IdCodeFrom(s) == [i \in 1..CodeWidth |-> IF i <= Len(s) THEN s[i] ELSE 0]

\* IdCode::as_bytes: the bytes before the first zero.
as_bytes(code) ==
    LET z == FindIn(code, 1, {0})
    IN IF z = 0 THEN code ELSE SubSeq(code, 1, z - 1)

\* The loop of next_code from digit i on.
RECURSIVE NextCodeFrom(_, _)
NextCodeFrom(code, i) ==
    IF i > CodeWidth THEN code
    ELSE IF code[i] = 0 THEN [code EXCEPT ![i] = FirstCodeByte]
    ELSE IF code[i] < LastCodeByte THEN [code EXCEPT ![i] = code[i] + 1]
    ELSE NextCodeFrom([code EXCEPT ![i] = FirstCodeByte], i + 1)

\* fn next_code: the new CURR_CODE, which is also the code returned.
next_code(code) == NextCodeFrom(code, 1)

(***************************************************************************)
(* Tokens of the prelude.                                                  *)
(***************************************************************************)
\* str::split_ascii_whitespace
RECURSIVE split_ascii_whitespace(_)
split_ascii_whitespace(line) ==
    With(FindNotIn(line, 1, WhiteSpace), LAMBDA a :
      IF a = 0 THEN <<>>
      ELSE With(FindIn(line, a, WhiteSpace), LAMBDA w :
             IF w = 0 THEN <<From(line, a)>>
             ELSE With(From(line, w), LAMBDA rest :
                    <<SubSeq(line, a, w - 1)>> \o split_ascii_whitespace(rest))))

\* The token iterator of parse_headers: the tokens of the lines k, k+1, ... of
\* the file in order, each with the line the reader had to consume to yield it.
RECURSIVE TokensFrom(_, _)
TokensFrom(file, k) ==
    IF k > Len(file) THEN <<>>
    ELSE With(split_ascii_whitespace(file[k]), LAMBDA ts :
           [x \in 1..Len(ts) |-> [tok |-> ts[x], ln |-> k]]) \o TokensFrom(file, k + 1)

\* fn take_to_end, called when the tokens before index j are consumed: the
\* tokens up to "$end" each followed by a space, and the index of the token
\* the caller pulls next (Len + 1: the iterator has ended).
take_to_end(toks, j) ==
    With(FindIn([x \in 1..Len(toks) |-> toks[x].tok], j, {TokEnd}), LAMBDA k :
      With(IF k = 0 THEN Len(toks) ELSE k - 1, LAMBDA last :
        [scale |-> Concat([x \in 1..(last - j + 1) |-> toks[j + x - 1].tok \o <<B.space>>]),
         next |-> IF k = 0 THEN Len(toks) + 1 ELSE k + 1]))

\* str::trim on ASCII text.
trim(s) ==
    With({i \in 1..Len(s) : s[i] \notin WhiteSpace}, LAMBDA hits :
      IF hits = {} THEN <<>>
      ELSE SubSeq(s, Least(hits), CHOOSE i \in hits : \A j \in hits : j <= i))

\* The multipliers of the $timescale match arms, 1_000^k in the source.
UnitFactor == [fs |-> 1, ps |-> Kilo, ns |-> Kilo ^ 2, us |-> Kilo ^ 3,
               ms |-> Kilo ^ 4, s |-> Kilo ^ 5]

\* The letters scale[n + e..].find looks for.
UnitLetters == {B.f, B.p, B.n, B.m, B.s}

\* The match on unit[..2]: the arm taken ("panic" for the last one).
UnitArm(c1, c2) ==
    CASE c1 = B.f /\ c2 = B.s -> "fs"
      [] c1 = B.p /\ c2 = B.s -> "ps"
      [] c1 = B.n /\ c2 = B.s -> "ns"
      [] c1 = B.u /\ c2 = B.s -> "us"
      [] c1 = B.m /\ c2 = B.s -> "ms"
      [] c1 = B.s -> "s"
      [] OTHER -> "panic"

\* The match of the $timescale arm on the unit text, number parsed before it.
ScaleBy(number, unit) ==
    With(IF Len(unit) < 2 THEN "panic" ELSE UnitArm(unit[1], unit[2]), LAMBDA arm :
      IF arm = "panic" THEN [ok |-> FALSE, v |-> 0, ovf |-> FALSE]
      ELSE IF arm = "fs" THEN number
      ELSE With(MulU64(number.v, UnitFactor[arm]), LAMBDA x :
             [ok |-> TRUE, v |-> x.v, ovf |-> number.ovf \/ x.ovf]))

\* The $timescale arm of parse_headers on the text take_to_end returned: n,
\* e and u are the three finds (as indices of scale); ok is FALSE when an
\* expect, an unwrap, a slice or the last match arm panics.
ParseTimescale(scale) ==
    With(FindIn(scale, 1, Digits), LAMBDA n :
      With(IF n = 0 THEN 0 ELSE FindNotIn(scale, n, Digits), LAMBDA e :
        With(IF e = 0 THEN 0 ELSE FindIn(scale, e, UnitLetters), LAMBDA u :
          IF u = 0 THEN [ok |-> FALSE, v |-> 0, ovf |-> FALSE]
          ELSE With(parse_u64(SubSeq(scale, n, e - 1)), LAMBDA number :
                 ScaleBy(number, From(scale, u))))))

(***************************************************************************)
(* parse_headers: the token loop over one input.                           *)
(***************************************************************************)
\* Tokens joined by single spaces, as the format! strings of the declarations.
RECURSIVE JoinSp(_)
JoinSp(ts) ==
    IF ts = <<>> THEN <<>>
    ELSE IF Len(ts) = 1 THEN ts[1]
    ELSE ts[1] \o <<B.space>> \o JoinSp(Tail(ts))

\* An entry(old_id) that gives every declaration a fresh code.
EntryInsertAlways(m, old_id, code) ==
    With(next_code(code), LAMBDA c :
      [map |-> [x \in DOMAIN m \cup {old_id} |-> IF x = old_id THEN c ELSE m[x]],
       code |-> c, new_id |-> c])

\* symbol_map.entry(old_id).or_insert_with(next_code) on the map m with the
\* allocator at code: the map, the allocator and the new_id afterwards.
EntryOrInsert(m, old_id, code) ==
    IF old_id \in DOMAIN m
    THEN [map |-> m, code |-> code, new_id |-> m[old_id]]
    ELSE With(next_code(code), LAMBDA c :
           [map |-> [x \in DOMAIN m \cup {old_id} |-> IF x = old_id THEN c ELSE m[x]],
            code |-> c, new_id |-> c])

\* The locals of parse_headers before the token loop of one input; code is
\* CURR_CODE, date and version are the header's options (<<>> is None).
ParseStart(code, date, version) ==
    [symbol_map |-> <<>>, declarations |-> <<>>, vars |-> <<>>, timescale |-> 0,
     code |-> code, date |-> date, version |-> version,
     panic |-> FALSE, ovf |-> FALSE, pulled |-> 0]

\* How an iteration of the while-let loop ends: with the next iteration
\* pulling token next, or with the end of the loop (a break or a panic).
Go(next, st) == [st |-> st, next |-> next, loop |-> TRUE]
Break(st) == [st |-> st, next |-> 0, loop |-> FALSE]

\* Whether token k exists and is "$end".
IsEnd(toks, k) == k <= Len(toks) /\ toks[k].tok = TokEnd

\* The $date and $version arms: r is what take_to_end returned.
DateArm(st, r) ==
    Go(r.next, [st EXCEPT !.date = IF st.date = <<>> THEN <<r.scale>> ELSE @])
VersionArm(st, r) ==
    Go(r.next, [st EXCEPT !.version = IF st.version = <<>> THEN <<r.scale>> ELSE @])

\* The $timescale arm.
TimescaleArm(st, r) ==
    With(ParseTimescale(r.scale), LAMBDA t :
      IF ~t.ok THEN Break([st EXCEPT !.panic = TRUE])
      ELSE Go(r.next, [st EXCEPT !.timescale = t.v, !.ovf = @ \/ t.ovf]))

\* The $scope arm on the tokens i+1 .. i+3.
ScopeArm(toks, i, st) ==
    IF ~IsEnd(toks, i + 3) THEN Break([st EXCEPT !.panic = TRUE])
    ELSE Go(i + 4, [st EXCEPT !.declarations = Append(@,
                       JoinSp(<<TokScope, toks[i + 1].tok, toks[i + 2].tok, TokEnd>>))])

\* The $var arm on the tokens i+1 .. i+3 and what take_to_end returned.
VarArm(toks, i, st, r) ==
    IF ~IdCodeFits(toks[i + 3].tok) THEN Break([st EXCEPT !.panic = TRUE])
    ELSE With(EntryOrInsert(st.symbol_map, IdCodeFrom(toks[i + 3].tok), st.code),
           LAMBDA en :
             Go(r.next,
                [st EXCEPT
                   !.symbol_map = en.map,
                   !.code = en.code,
                   !.vars = Append(@, [old_id |-> IdCodeFrom(toks[i + 3].tok),
                                       new_id |-> en.new_id]),
                   !.declarations = Append(@,
                       JoinSp(<<TokVar, toks[i + 1].tok, toks[i + 2].tok,
                                as_bytes(en.new_id), trim(r.scale), TokEnd>>))]))

\* One iteration of the while-let loop of parse_headers on token i.  pulled is
\* the index of the last token the iterator was asked for when the loop ends.
ParseToken(toks, i, st) ==
    With(toks[i].tok, LAMBDA token :
      CASE token = TokDate -> With(take_to_end(toks, i + 1), LAMBDA r : DateArm(st, r))
        [] token = TokVersion ->
             With(take_to_end(toks, i + 1), LAMBDA r : VersionArm(st, r))
        [] token = TokTimescale ->
             With(take_to_end(toks, i + 1), LAMBDA r : TimescaleArm(st, r))
        [] token = TokScope -> ScopeArm(toks, i, st)
        [] token = TokVar ->
             IF i + 3 > Len(toks) THEN Break([st EXCEPT !.panic = TRUE])
             ELSE With(take_to_end(toks, i + 4), LAMBDA r : VarArm(toks, i, st, r))
        [] token = TokUpscope ->
             IF ~IsEnd(toks, i + 1) THEN Break([st EXCEPT !.panic = TRUE])
             ELSE Go(i + 2, [st EXCEPT !.declarations =
                                Append(@, JoinSp(<<TokUpscope, TokEnd>>))])
        [] token = TokEnddefinitions ->
             IF ~IsEnd(toks, i + 1) THEN Break([st EXCEPT !.panic = TRUE])
             ELSE Break([st EXCEPT !.pulled = i + 1])
        [] OTHER -> Break([st EXCEPT !.pulled = i]))

\* The while-let loop of parse_headers with token i the next one to pull; the
\* loop also ends when the iterator returns None.
RECURSIVE ParseLoop(_, _, _)
ParseLoop(toks, i, st) ==
    IF i > Len(toks) THEN [st EXCEPT !.pulled = Len(toks) + 1]
    ELSE With(ParseToken(toks, i, st), LAMBDA r :
           IF r.loop THEN ParseLoop(toks, r.next, r.st) ELSE r.st)

\* reader.position() after the loop: the number of lines the reader consumed.
ReaderPosition(file, toks, pulled) ==
    IF pulled > Len(toks) THEN Len(file) ELSE toks[pulled].ln

\* The Vcd pushed for the file after its token loop ended in st; fs and vars
\* are history fields: the femtoseconds parsed, and old_id and new_id of every
\* $var in order.
NewVcd(file, toks, st) ==
    [symbol_map |-> st.symbol_map,
     declarations |-> st.declarations,
     end_of_definitions |-> ReaderPosition(file, toks, st.pulled),
     timescale |-> st.timescale,
     fs |-> st.timescale,
     vars |-> st.vars]

\* One iteration of `for input in inputs` of parse_headers on the file, with
\* the allocator and the header as they are: the Vcd pushed, the allocator
\* and header afterwards, and whether the run panicked (checks: the build
\* panics on overflow).
ParseInput(file, code, date, version, checks) ==
    With(TokensFrom(file, 1), LAMBDA toks :
      With(ParseLoop(toks, 1, ParseStart(code, date, version)), LAMBDA st :
        With(st.panic \/ (checks /\ st.ovf) \/ st.timescale = 0, LAMBDA panicked :
          [panic |-> panicked,
           code |-> st.code, date |-> st.date, version |-> st.version,
           vcd |-> IF panicked THEN <<>> ELSE <<NewVcd(file, toks, st)>>])))

\* The fold of fn gcd over the timescales of parse_headers, from vcds[0]'s.
RECURSIVE GcdFold(_, _)
GcdFold(acc, ts) == IF ts = <<>> THEN acc ELSE GcdFold(gcd(acc, Head(ts)), Tail(ts))

\* A timescale string that is always in femtoseconds.
TimescaleStringInFs(x) == FormatU64(x) \o <<B.f, B.s>>

\* The match on gcd that formats the output timescale, first arm first.
TimescaleString(x) ==
    IF x % UnitFactor.s = 0 THEN FormatU64(x \div UnitFactor.s) \o <<B.s>>
    ELSE IF x % UnitFactor.ms = 0 THEN FormatU64(x \div UnitFactor.ms) \o <<B.m, B.s>>
    ELSE IF x % UnitFactor.us = 0 THEN FormatU64(x \div UnitFactor.us) \o <<B.u, B.s>>
    ELSE IF x % UnitFactor.ns = 0 THEN FormatU64(x \div UnitFactor.ns) \o <<B.n, B.s>>
    ELSE IF x % UnitFactor.ps = 0 THEN FormatU64(x \div UnitFactor.ps) \o <<B.p, B.s>>
    ELSE FormatU64(x) \o <<B.f, B.s>>

(***************************************************************************)
(* find_sections.                                                          *)
(***************************************************************************)
\* The k-th piece of file[..].split('\n'): line k, and the empty piece that
\* follows the last '\n'.
Piece(file, k) == IF k <= Len(file) THEN file[k] ELSE <<>>

\* The pieces a slice holding the lines start .. end-1 splits into are the
\* pieces start .. end, the last one empty.
SlicePiece(file, k, end) == IF k < end THEN file[k] ELSE <<>>

\* A comparison that never ends a section.
OutOfOrderNever(curr_line_value, last_line_value) == FALSE

\* A comparison that ends a section at a repeated timestamp as well.
OutOfOrderOrEqual(curr_line_value, last_line_value) == curr_line_value <= last_line_value

\* `curr_line_value < last_line_value`: the line ends the current section.
OutOfOrder(curr_line_value, last_line_value) == curr_line_value < last_line_value

\* A section that leaves out its last line.
SectionCutShort(value, start, end, vcd) ==
    [value |-> value, start |-> start, end |-> end - 1, vcd |-> vcd, first_ts |-> value]

\* Section { value, section: &file[start..end], vcd }; first_ts is a history
\* field: the value find_sections tagged the section with.
Section(value, start, end, vcd) ==
    [value |-> value, start |-> start, end |-> end, vcd |-> vcd, first_ts |-> value]

\* A timestamp line of find_sections with scaled value v at offset k; st
\* holds curr_section (<<>> is None) and the sections pushed.
TimestampAt(vcd, k, v, st) ==
    IF st.cur = <<>> THEN [st EXCEPT !.cur = <<[offset |-> k, value |-> v, last |-> v]>>]
    ELSE IF OutOfOrder(v, st.cur[1].last)
    THEN [st EXCEPT
            !.sections = Append(@, Section(st.cur[1].value, st.cur[1].offset, k, vcd)),
            !.cur = <<[offset |-> k, value |-> v, last |-> v]>>]
    ELSE [st EXCEPT !.cur = <<[@[1] EXCEPT !.last = v]>>]

\* One iteration of the `for line in lines` loop of find_sections on piece k
\* of input vcd.
ScanLine(file, timescale, vcd, k, st) ==
    With(Piece(file, k), LAMBDA line :
      IF line # <<>> /\ line[1] = B.hash
      THEN With(parse_u64(Tail(line)), LAMBDA p :
             With(MulU64(p.v, timescale), LAMBDA x :
               IF ~p.ok THEN [st EXCEPT !.panic = TRUE]
               ELSE TimestampAt(vcd, k, x.v, [st EXCEPT !.ovf = @ \/ p.ovf \/ x.ovf])))
      ELSE st)

\* The `for line in lines` loop of find_sections from piece k on.
RECURSIVE ScanBody(_, _, _, _, _)
ScanBody(file, timescale, vcd, k, st) ==
    IF k > Len(file) + 1 \/ st.panic THEN st
    ELSE With(ScanLine(file, timescale, vcd, k, st), LAMBDA st1 :
           ScanBody(file, timescale, vcd, k + 1, st1))

\* One iteration of `for vcd in vcds` of find_sections, sections pushed so far
\* in st: the body scan and the push of the last section.
ScanVcd(file, v, vcd, st) ==
    With(ScanBody(file, v.timescale, vcd, v.end_of_definitions + 1,
                  [st EXCEPT !.cur = <<>>]),
         LAMBDA r :
           IF r.panic \/ r.cur = <<>> THEN r
           ELSE [r EXCEPT !.sections =
                    Append(@, Section(r.cur[1].value, r.cur[1].offset, Len(file) + 1, vcd))])

\* fn find_sections over the inputs vcd, vcd + 1, ...
RECURSIVE find_sections(_, _, _, _)
find_sections(fs, vs, vcd, st) ==
    IF vcd > Len(vs) \/ st.panic THEN st
    ELSE With(ScanVcd(fs[vcd], vs[vcd], vcd, st), LAMBDA st1 :
           find_sections(fs, vs, vcd + 1, st1))

(***************************************************************************)
(* write_output.                                                           *)
(***************************************************************************)
\* A line written to the output: its bytes (without the '\n'), and as history
\* the input, the input line and the section it was written for (0: none).
OutLine(text, vcd, line, sec) == [text |-> text, vcd |-> vcd, line |-> line, sec |-> sec]

\* An order of the heap's entries that puts the larger index first among
\* equal values.
EntryLessLargerIndex(a, b) == a[1] < b[1] \/ (a[1] = b[1] /\ a[2] > b[2])

\* The order of the heap's entries Reverse((value, index)).
EntryLess(a, b) == a[1] < b[1] \/ (a[1] = b[1] /\ a[2] < b[2])

\* A peek that takes, among the entries of least value, the one of largest
\* index.
HeapPeekLargerIndex(h) ==
    CHOOSE a \in h : \A b \in h \ {a} : a[1] < b[1] \/ (a[1] = b[1] /\ a[2] > b[2])

\* heap.peek_mut(): the entry with the least (value, index).
HeapPeek(h) == CHOOSE a \in h : \A b \in h \ {a} : EntryLess(a, b)

\* A timestamp write that writes only while last_timestamp is None.
TimestampLinesFirstOnly(last, sec, index) ==
    IF last = <<>>
    THEN <<OutLine(<<B.hash>> \o u64_to_bytes(sec.value), sec.vcd, sec.start, index)>>
    ELSE <<>>

\* A timestamp write that does not look at last_timestamp.
TimestampLinesAlways(last, sec, index) ==
    <<OutLine(<<B.hash>> \o u64_to_bytes(sec.value), sec.vcd, sec.start, index)>>

\* The timestamp write of one iteration: nothing when last_timestamp is
\* Some(section.value).
TimestampLines(last, sec, index) ==
    IF last # <<sec.value>>
    THEN <<OutLine(<<B.hash>> \o u64_to_bytes(sec.value), sec.vcd, sec.start, index)>>
    ELSE <<>>

\* A value-change arm that writes the symbol as it stands in the input.
TranslateNothing(name, symbol, symbol_map) == <<name \o symbol>>

\* A value-change arm of the match on a line split into name and symbol: the
\* line written, or <<>> when the IdCode is longer than the array or the
\* symbol is not in the map (a panic).
Translate(name, symbol, symbol_map) ==
    IF ~IdCodeFits(symbol) \/ IdCodeFrom(symbol) \notin DOMAIN symbol_map THEN <<>>
    ELSE <<name \o as_bytes(symbol_map[IdCodeFrom(symbol)])>>

\* The value-change arms of the match: `b` and `r` lines split after the
\* first space (a panic when there is none), other lines after the first byte.
ValueChange(line, symbol_map) ==
    IF line[1] \in {B.b, B.r}
    THEN With(FindIn(line, 1, {B.space}), LAMBDA pos :
           IF pos = 0 THEN <<>>
           ELSE Translate(SubSeq(line, 1, pos), From(line, pos + 1), symbol_map))
    ELSE Translate(SubSeq(line, 1, 1), From(line, 2), symbol_map)

\* How an iteration of the `for line in lines` loop of write_output ends.
LineResult(stop, lines, k, value, ovf) ==
    [stop |-> stop, lines |-> lines, at |-> k, value |-> value, ovf |-> ovf]

\* A `#` arm that does not move the section forward.
TimestampArmStays(line, timescale, k, acc) ==
    With(parse_u64(Tail(line)), LAMBDA p :
      With(MulU64(p.v, timescale), LAMBDA x :
        LineResult(IF p.ok THEN "ts" ELSE "panic", acc, 0, x.v, p.ovf \/ x.ovf)))

\* A `#` arm that keys the section by the number of the line, unscaled.
TimestampArmUnscaled(line, timescale, k, acc) ==
    With(parse_u64(Tail(line)), LAMBDA p :
      LineResult(IF p.ok THEN "ts" ELSE "panic", acc, k, p.v, p.ovf))

\* The `#` arm on the line at piece k.
TimestampArm(line, timescale, k, acc) ==
    With(parse_u64(Tail(line)), LAMBDA p :
      With(MulU64(p.v, timescale), LAMBDA x :
        LineResult(IF p.ok THEN "ts" ELSE "panic", acc, k, x.v, p.ovf \/ x.ovf)))

\* One iteration of the `for line in lines` loop of write_output on piece k
\* of section index, acc the lines written so far: whether the loop goes on
\* ("next"), or how it ended ("ts": `continue 'sections` at the timestamp line
\* k with the scaled value; "panic").
MergeLine(file, v, sec, index, k, acc) ==
    With(SlicePiece(file, k, sec.end), LAMBDA line :
      IF line = <<>> \/ line[1] = B.dollar THEN LineResult("next", acc, k, 0, FALSE)
      ELSE IF line[1] = B.hash THEN TimestampArm(line, v.timescale, k, acc)
      ELSE With(ValueChange(line, v.symbol_map), LAMBDA w :
             IF w = <<>> THEN LineResult("panic", acc, k, 0, FALSE)
             ELSE LineResult("next", Append(acc, OutLine(w[1], sec.vcd, k, index)),
                             k, 0, FALSE)))

\* The `for line in lines` loop of write_output over the pieces k .. sec.end
\* of section index ("end": no line was left).
RECURSIVE ScanLines(_, _, _, _, _, _)
ScanLines(file, v, sec, index, k, acc) ==
    IF k > sec.end THEN LineResult("end", acc, k, 0, FALSE)
    ELSE With(MergeLine(file, v, sec, index, k, acc), LAMBDA r :
           IF r.stop = "next" THEN ScanLines(file, v, sec, index, k + 1, r.lines) ELSE r)

\* The lines write_output writes before the merge loop.
PreludeLines(hdr, vs) ==
    LET opt(tok, o) == IF o = <<>> THEN <<>>
                       ELSE <<OutLine(tok \o <<B.space>> \o o[1] \o TokEnd, 0, 0, 0)>>
        decls == Concat([i \in 1..Len(vs) |->
                    [d \in 1..Len(vs[i].declarations) |->
                        OutLine(vs[i].declarations[d], i, 0, 0)]])
    IN opt(TokDate, hdr.date) \o opt(TokVersion, hdr.version)
       \o opt(TokTimescale, hdr.timescale) \o decls
       \o <<OutLine(JoinSp(<<TokEnddefinitions, TokEnd>>), 0, 0, 0)>>

(***************************************************************************)
(* The state of a run.                                                     *)
(***************************************************************************)
VARIABLES
    files,            \* the input files named on the command line, in order
    overflow_checks,  \* whether the build panics on integer overflow
    pc,               \* "parse", "find", "write", "merge", "done" or "panic"
    curr_code,        \* static CURR_CODE of next_code
    header,           \* Header: date, version, timescale (<<>> is None)
    vcds,             \* the Vec<Vcd> of parse_headers
    sections,         \* the Vec<Section> of find_sections, mutated by write_output
    heap,             \* the BinaryHeap of write_output: a set of <<value, index>>
    last_timestamp,   \* last_timestamp of write_output (<<>> is None)
    out,              \* the lines written to the output file
    visits            \* history: <<value, index>> of every merge iteration

vars == <<files, overflow_checks, pc, curr_code, header, vcds, sections, heap,
          last_timestamp, out, visits>>

\* The state at the start of main for the given command line and build.
Start(inputs, checks) ==
    /\ files = inputs
    /\ overflow_checks = checks
    /\ pc = "parse"
    /\ curr_code = ZeroCode
    /\ header = [date |-> <<>>, version |-> <<>>, timescale |-> <<>>]
    /\ vcds = <<>>
    /\ sections = <<>>
    /\ heap = {}
    /\ last_timestamp = <<>>
    /\ out = <<>>
    /\ visits = <<>>

(***************************************************************************)
(* The steps of main.                                                      *)
(***************************************************************************)
\* parse_headers, one iteration of `for input in inputs`.
ParseHeader ==
    /\ pc = "parse"
    /\ Len(vcds) < Len(files)
    /\ \E r \in {ParseInput(files[Len(vcds) + 1], curr_code, header.date,
                            header.version, overflow_checks)} :
          /\ pc' = IF r.panic THEN "panic" ELSE "parse"
          /\ curr_code' = r.code
          /\ header' = [header EXCEPT !.date = r.date, !.version = r.version]
          /\ vcds' = vcds \o r.vcd
    /\ UNCHANGED <<files, overflow_checks, sections, heap, last_timestamp, out, visits>>

\* parse_headers after the loop: the gcd, the multipliers, the timescale string.
Reconcile ==
    /\ pc = "parse"
    /\ Len(vcds) = Len(files)
    /\ \E g \in {GcdFold(vcds[1].timescale, [i \in 1..Len(vcds) |-> vcds[i].timescale])} :
          /\ vcds' = [i \in 1..Len(vcds) |->
                         [vcds[i] EXCEPT !.timescale = vcds[i].timescale \div g]]
          /\ header' = [header EXCEPT !.timescale = <<TimescaleString(g)>>]
    /\ pc' = "find"
    /\ UNCHANGED <<files, overflow_checks, curr_code, sections, heap, last_timestamp,
                   out, visits>>

\* find_sections.
FindSections ==
    /\ pc = "find"
    /\ \E r \in {find_sections(files, vcds, 1,
                    [cur |-> <<>>, sections |-> <<>>, panic |-> FALSE, ovf |-> FALSE])} :
          IF r.panic \/ (overflow_checks /\ r.ovf)
          THEN pc' = "panic" /\ sections' = sections
          ELSE pc' = "write" /\ sections' = r.sections
    /\ UNCHANGED <<files, overflow_checks, curr_code, header, vcds, heap, last_timestamp,
                   out, visits>>

\* write_output up to the merge loop: the prelude and the heap.
WritePrelude ==
    /\ pc = "write"
    /\ out' = PreludeLines(header, vcds)
    /\ heap' = {<<sections[i].value, i>> : i \in 1..Len(sections)}
    /\ last_timestamp' = <<>>
    /\ pc' = "merge"
    /\ UNCHANGED <<files, overflow_checks, curr_code, header, vcds, sections, visits>>

\* One iteration of the 'sections loop of write_output on the heap's top
\* entry, r the way its line loop ended.
MergeEntry(heap_entry, index, section, r) ==
    /\ out' = out \o TimestampLines(last_timestamp, section, index) \o r.lines
    /\ last_timestamp' = <<section.value>>
    /\ visits' = Append(visits, <<section.value, index>>)
    /\ IF r.stop = "panic" \/ (overflow_checks /\ r.ovf)
       THEN pc' = "panic" /\ UNCHANGED <<sections, heap>>
       ELSE IF r.stop = "ts"
       THEN /\ sections' = [sections EXCEPT ![index] =
                               [@ EXCEPT !.value = r.value, !.start = r.at]]
            /\ heap' = (heap \ {heap_entry}) \cup {<<r.value, index>>}
            /\ pc' = "merge"
       ELSE /\ heap' = heap \ {heap_entry}
            /\ UNCHANGED <<sections, pc>>

\* One iteration of the 'sections loop of write_output.
MergeStep ==
    /\ pc = "merge"
    /\ heap # {}
    /\ \E heap_entry \in {HeapPeek(heap)} :
         \E r \in {ScanLines(files[sections[heap_entry[2]].vcd],
                             vcds[sections[heap_entry[2]].vcd],
                             sections[heap_entry[2]], heap_entry[2],
                             sections[heap_entry[2]].start + 1, <<>>)} :
            MergeEntry(heap_entry, heap_entry[2], sections[heap_entry[2]], r)
    /\ UNCHANGED <<files, overflow_checks, curr_code, header, vcds>>

\* The merge loop finds the heap empty: write_output returns Ok(()).
WriteDone ==
    /\ pc = "merge"
    /\ heap = {}
    /\ pc' = "done"
    /\ UNCHANGED <<files, overflow_checks, curr_code, header, vcds, sections, heap,
                   last_timestamp, out, visits>>

Next == ParseHeader \/ Reconcile \/ FindSections \/ WritePrelude \/ MergeStep \/ WriteDone

(***************************************************************************)
(* Input files.                                                            *)
(***************************************************************************)
UnitNames == {"fs", "ps", "ns", "us", "ms", "s"}
UnitText == [fs |-> <<B.f, B.s>>, ps |-> <<B.p, B.s>>, ns |-> <<B.n, B.s>>,
             us |-> <<B.u, B.s>>, ms |-> <<B.m, B.s>>, s |-> <<B.s>>]

\* "$timescale N<unit> $end", or "$timescale N <unit> $end" when spaced.
TimescaleLine(N, unit, spaced) ==
    IF spaced
    THEN JoinSp(<<TokTimescale, FormatU64(N), UnitText[unit], TokEnd>>)
    ELSE JoinSp(<<TokTimescale, FormatU64(N) \o UnitText[unit], TokEnd>>)

\* "$var wire 1 <old_id> a $end"
VarLine(old_id) == JoinSp(<<TokVar, <<119, 105, 114, 101>>, <<49>>, old_id, <<97>>, TokEnd>>)

\* "$enddefinitions $end"
EnddefinitionsLine == JoinSp(<<TokEnddefinitions, TokEnd>>)

\* "#<n>"
TimestampLine(n) == <<B.hash>> \o FormatU64(n)

\* "1<id>"
ScalarLine(id) == <<49>> \o id

\* "b1 <id>"
VectorLine(id) == <<B.b, 49, B.space>> \o id

\* The old IdCodes "!" and "\"" the inputs use.
IdA == <<33>>
IdB == <<34>>

\* The merge domain.  A command line is written as a word over five
\* letters, at most MaxSize long and starting with a file: 1 and 2 start an
\* input of timescale 1fs or 2fs that declares "!"; 3, 4 and 5 add the line
\* "#1", "#2" or "1!" to the body of the input started last.
MergeWords == UNION {{w \in [1..m -> 1..5] : w[1] \in {1, 2}} : m \in 1..MaxSize}
MergeLetter(letter) ==
    CASE letter = 3 -> TimestampLine(1)
      [] letter = 4 -> TimestampLine(2)
      [] letter = 5 -> ScalarLine(IdA)
MergeFile(N) == <<TimescaleLine(N, "fs", FALSE), VarLine(IdA), EnddefinitionsLine>>

RECURSIVE MergeRun(_)
MergeRun(w) ==
    IF w = <<>> THEN <<>>
    ELSE With(MergeRun(SubSeq(w, 1, Len(w) - 1)), LAMBDA r :
           IF w[Len(w)] \in {1, 2} THEN Append(r, MergeFile(w[Len(w)]))
           ELSE [r EXCEPT ![Len(r)] = Append(@, MergeLetter(w[Len(w)]))])

MergeInputs == {MergeRun(w) : w \in MergeWords}

\* No product of this domain leaves the word, so both builds run alike: the
\* domain takes the build without overflow checks.
Init == \E inputs \in MergeInputs : Start(inputs, FALSE)

Spec == Init /\ [][Next]_vars

\* The command lines of the merge domain whose inputs all have timescale
\* 1fs, under fairness: main runs on one thread and no step waits for
\* anything, so a step that can be taken is taken.
FairInputs == {MergeRun(w) : w \in {v \in MergeWords : \A k \in DOMAIN v : v[k] # 2}}

InitFair == \E inputs \in FairInputs : Start(inputs, FALSE)

SpecFair == InitFair /\ [][Next]_vars /\ WF_vars(Next)

\* The timescale domain: one or two inputs, each with a $timescale of a number
\* up to MaxScaleNumber in any unit, written with or without a space, and the
\* body "$dumpvars", "#0" or "#9", "1!", "b1 !", "$end".
ScaleFile(N, unit, spaced, n) ==
    <<TimescaleLine(N, unit, spaced), VarLine(IdA), EnddefinitionsLine,
      TokDumpvars, TimestampLine(n), ScalarLine(IdA), VectorLine(IdA), TokEnd>>
ScaleFiles ==
    {ScaleFile(N, unit, spaced, n) :
        N \in 1..MaxScaleNumber, unit \in UnitNames, spaced \in BOOLEAN, n \in {0, 9}}
ScaleInputs == {<<f>> : f \in ScaleFiles} \cup {<<f, h>> : f \in ScaleFiles, h \in ScaleFiles}

InitScale == \E inputs \in ScaleInputs : \E checks \in BOOLEAN : Start(inputs, checks)

SpecScale == InitScale /\ [][Next]_vars

\* The declaration domain: up to MaxDeclFiles inputs of timescale 1fs, each
\* with a $date, a $version, a scope holding one of five lists of $var lines
\* over the old IdCodes "!" and "\"", and the body "#1", "1!", "b1 \"".
VarLists == {<<>>, <<IdA>>, <<IdA, IdB>>, <<IdA, IdA>>, <<IdB, IdA, IdB>>}
DeclFile(olds) ==
    <<JoinSp(<<TokDate, <<100>>, TokEnd>>),
      JoinSp(<<TokVersion, <<118>>, TokEnd>>),
      TimescaleLine(1, "fs", FALSE),
      JoinSp(<<TokScope, <<109, 111, 100, 117, 108, 101>>, <<116, 111, 112>>, TokEnd>>)>>
    \o [k \in 1..Len(olds) |-> VarLine(olds[k])]
    \o <<JoinSp(<<TokUpscope, TokEnd>>), EnddefinitionsLine,
         TimestampLine(1), ScalarLine(IdA), VectorLine(IdB)>>
DeclInputs == UNION {[1..k -> {DeclFile(olds) : olds \in VarLists}] : k \in 1..MaxDeclFiles}

InitDecl == \E inputs \in DeclInputs : \E checks \in BOOLEAN : Start(inputs, checks)

SpecDecl == InitDecl /\ [][Next]_vars

\* The prelude domain: one or two inputs of timescale 1fs declaring "!",
\* the prelude ended by "$enddefinitions $end", by "$enddefinitions" and
\* "$end" on two lines, by "$dumpvars", or by the first line of the body,
\* before one of three bodies.
PreludeEnders == {<<EnddefinitionsLine>>, <<TokEnddefinitions, TokEnd>>, <<TokDumpvars>>, <<>>}
PreludeBodies ==
    {<<TimestampLine(1), ScalarLine(IdA)>>,
     <<TimestampLine(2), ScalarLine(IdA), TimestampLine(1), ScalarLine(IdA)>>,
     <<ScalarLine(IdA), TimestampLine(1), ScalarLine(IdA)>>}
PreludeFiles ==
    {<<TimescaleLine(1, "fs", FALSE), VarLine(IdA)>> \o ender \o body :
        ender \in PreludeEnders, body \in PreludeBodies}
PreludeInputs ==
    {<<f>> : f \in PreludeFiles} \cup {<<f, h>> : f \in PreludeFiles, h \in PreludeFiles}

InitPrelude == \E inputs \in PreludeInputs : \E checks \in BOOLEAN : Start(inputs, checks)

SpecPrelude == InitPrelude /\ [][Next]_vars

(***************************************************************************)
(* Reading a run back: the body lines of the output and the input lines    *)
(* they were written for.                                                  *)
(***************************************************************************)
IsTimestamp(text) == text # <<>> /\ text[1] = B.hash
IsChange(text) == text # <<>> /\ text[1] \notin {B.hash, B.dollar}

\* The positions of the output holding `#ts` lines and value-change lines.
TsAt == {k \in 1..Len(out) : out[k].line > 0 /\ IsTimestamp(out[k].text)}
ChangeAt == {k \in 1..Len(out) : out[k].line > 0 /\ ~IsTimestamp(out[k].text)}

\* The number a written `#ts` line carries.
WrittenTs(k) == DecimalValue(Tail(out[k].text))

\* The body lines of input i, and its value-change lines.
BodyOf(i) == (vcds[i].end_of_definitions + 1)..Len(files[i])
ChangesOf(i) == {k \in BodyOf(i) : IsChange(files[i][k])}

\* The exact scaled timestamp in effect at line k of input i: the number of
\* the last `#` line up to k times the multiplier of the input (-1: none).
StampsUpTo(i, k) == {j \in BodyOf(i) : j <= k /\ IsTimestamp(files[i][j])}
ScaledTs(i, k) ==
    IF StampsUpTo(i, k) = {} THEN -1
    ELSE LET j == CHOOSE x \in StampsUpTo(i, k) : \A y \in StampsUpTo(i, k) : y <= x
         IN DecimalValue(Tail(files[i][j])) * vcds[i].timescale

\* The scaled timestamp of the input line the output line at p was written for.
TsOf(p) == ScaledTs(out[p].vcd, out[p].line)

(***************************************************************************)
(* Properties of the merge (specification Spec).                           *)
(***************************************************************************)
\* C1: the `#ts` values written are non-decreasing in output order, and of two
\* value changes with distinct scaled timestamps the one with the smaller
\* timestamp is written first.
MonotoneOutput ==
    /\ \A a, b \in TsAt : a < b => WrittenTs(a) <= WrittenTs(b)
    /\ \A p, q \in ChangeAt : TsOf(p) < TsOf(q) => p < q

\* C1 witness: a finished run that wrote a value change before one that
\* precedes it in the same input, the input's timestamps going backwards.
MonotoneOutputWitness ==
    /\ pc = "done"
    /\ \E p, q \in ChangeAt :
          /\ p < q
          /\ out[p].vcd = out[q].vcd
          /\ out[p].line > out[q].line
          /\ TsOf(p) < TsOf(q)

\* C2: each scaled timestamp value is written as a `#ts` line at most once.
TimestampWrittenOnce ==
    \A a, b \in TsAt : a # b => out[a].text # out[b].text /\ WrittenTs(a) # WrittenTs(b)

\* C2 witness: a finished run in which two sections stood at the same
\* timestamp, and one section stood at it twice.
TimestampWrittenOnceWitness ==
    /\ pc = "done"
    /\ \E a, b, c \in DOMAIN visits :
          /\ a < b
          /\ visits[a] = visits[b]
          /\ visits[c][1] = visits[a][1]
          /\ visits[c][2] # visits[a][2]
    /\ TsAt # {}

\* C3: in a finished run, for each input the value-change lines written,
\* each keyed by its timestamp and its translated text, are as a multiset the
\* value-change lines of the body of the input.
WrittenKey(p) ==
    <<WrittenTs(CHOOSE a \in TsAt : a < p /\ \A b \in TsAt : b < p => b <= a),
      out[p].text>>
InputKey(i, k) == <<ScaledTs(i, k), ValueChange(files[i][k], vcds[i].symbol_map)[1]>>
EventConservation ==
    pc = "done" =>
        \A i \in 1..Len(files) :
            /\ \A k \in ChangesOf(i) :
                  Cardinality({j \in ChangesOf(i) : InputKey(i, j) = InputKey(i, k)})
                  = Cardinality({p \in ChangeAt :
                        out[p].vcd = i /\ WrittenKey(p) = InputKey(i, k)})
            /\ Cardinality({p \in ChangeAt : out[p].vcd = i}) = Cardinality(ChangesOf(i))

\* C6: among value changes of the same scaled timestamp, those of a section
\* of smaller index are written before those of a section of larger index,
\* changes of one section keep their file order, and the index of a section
\* orders the sections by input and by place in the input.
StableTieBreak ==
    /\ \A p, q \in ChangeAt :
          (p < q /\ TsOf(p) = TsOf(q)) =>
              /\ out[p].sec <= out[q].sec
              /\ out[p].sec = out[q].sec => out[p].line < out[q].line
    /\ \A a, b \in DOMAIN sections :
          a < b => \/ sections[a].vcd < sections[b].vcd
                   \/ /\ sections[a].vcd = sections[b].vcd
                      /\ sections[a].end <= sections[b].start

\* C6 witness: a finished run with changes of two sections at one timestamp,
\* the later section having reached it from an earlier timestamp.
StableTieBreakWitness ==
    /\ pc = "done"
    /\ \E p, q \in ChangeAt :
          /\ p < q
          /\ TsOf(p) = TsOf(q)
          /\ out[p].sec < out[q].sec
          /\ \E a \in DOMAIN visits :
                visits[a][2] = out[q].sec /\ visits[a][1] < TsOf(q)

\* C7 as stated: the iterations of the merge loop at one timestamp take the
\* sections in ascending (first_ts, index).
VisitedByFirstTs ==
    \A a, b \in DOMAIN visits :
        (a < b /\ visits[a][1] = visits[b][1]) =>
            \/ sections[visits[a][2]].first_ts < sections[visits[b][2]].first_ts
            \/ /\ sections[visits[a][2]].first_ts = sections[visits[b][2]].first_ts
               /\ visits[a][2] <= visits[b][2]

\* C7 amended: the iterations of the merge loop at one timestamp take the
\* sections in ascending index, whatever their first_ts, and the changes
\* written at that timestamp are those of the iterations, in their order.
VisitedByIndex ==
    /\ \A a, b \in DOMAIN visits :
          (a < b /\ visits[a][1] = visits[b][1]) => visits[a][2] <= visits[b][2]
    /\ \A p, q \in ChangeAt :
          (p <= q /\ TsOf(p) = TsOf(q)) =>
              \E a, b \in DOMAIN visits :
                  /\ a <= b
                  /\ visits[a] = <<TsOf(p), out[p].sec>>
                  /\ visits[b] = <<TsOf(q), out[q].sec>>

\* C7 witness: a finished run that took, at one timestamp, a section of
\* larger first_ts before a section of smaller first_ts, and wrote changes
\* of both.
VisitedByIndexWitness ==
    /\ pc = "done"
    /\ \E a, b \in DOMAIN visits :
          /\ a < b
          /\ visits[a][1] = visits[b][1]
          /\ sections[visits[a][2]].first_ts > sections[visits[b][2]].first_ts
          /\ \E p, q \in ChangeAt :
                /\ out[p].sec = visits[a][2] /\ TsOf(p) = visits[a][1]
                /\ out[q].sec = visits[b][2] /\ TsOf(q) = visits[b][1]

(***************************************************************************)
(* Properties of the timescales (specification SpecScale).                 *)
(***************************************************************************)
\* The greatest common divisor of the femtoseconds per tick of the inputs,
\* from the definition of a divisor.
CommonDivisors ==
    {d \in 1..(IF vcds = <<>> THEN 1 ELSE vcds[1].fs) :
        \A i \in DOMAIN vcds : vcds[i].fs % d = 0}
GreatestCommonDivisor == CHOOSE d \in CommonDivisors : \A e \in CommonDivisors : e <= d

\* The timestamp the code computes for the `#` line the output line at p was
\* written for, in the u64 of the model.
CodeTs(p) ==
    MulU64(parse_u64(Tail(files[out[p].vcd][out[p].line])).v,
           vcds[out[p].vcd].timescale).v

\* C4: once parse_headers has returned, the output timescale is that of the
\* gcd g of the f_i, the multiplier of input i is f_i / g, and the value of
\* every section and of every `#ts` line written is the exact product of the
\* raw timestamp and the multiplier.
TimescaleLaw ==
    pc \in {"find", "write", "merge", "done"} =>
        /\ header.timescale = <<TimescaleString(GreatestCommonDivisor)>>
        /\ \A i \in DOMAIN vcds :
              vcds[i].timescale * GreatestCommonDivisor = vcds[i].fs
        /\ \A x \in DOMAIN sections :
              sections[x].value = ScaledTs(sections[x].vcd, sections[x].start)
        /\ \A a \in TsAt : WrittenTs(a) = TsOf(a)

\* C5: an input whose first line is `$timescale N<u> $end`, with or without
\* a space before the unit, has N times the femtoseconds of u per tick.
FemtosecondsPerTick ==
    \A i \in DOMAIN vcds :
        \A N \in 1..MaxScaleNumber, unit \in UnitNames, spaced \in BOOLEAN :
            files[i][1] = TimescaleLine(N, unit, spaced)
                => vcds[i].fs = N * UnitFactor[unit]

\* C10: every `#ts` line written is `#` and a non-empty run of digits which
\* parse_u64 reads back as the timestamp written.
TimestampRendering ==
    \A a \in TsAt :
        /\ Tail(out[a].text) # <<>>
        /\ parse_u64(Tail(out[a].text)) = [ok |-> TRUE, v |-> CodeTs(a), ovf |-> FALSE]

(***************************************************************************)
(* Properties of the IdCodes (specification SpecDecl).                     *)
(***************************************************************************)
\* C8: the new IdCodes of two entries of the symbol maps differ when the
\* entries are of different inputs or of different old IdCodes.
NewCodesDistinct ==
    \A i, j \in DOMAIN vcds :
        \A a \in DOMAIN vcds[i].symbol_map, b \in DOMAIN vcds[j].symbol_map :
            (i # j \/ a # b) => vcds[i].symbol_map[a] # vcds[j].symbol_map[b]

\* The IdCodes the `$var` declarations kept for input i are emitted with, in
\* order: the fourth token of each.
EmittedIds(i) ==
    LET ds == SelectSeq(vcds[i].declarations,
                  LAMBDA d : Len(d) >= Len(TokVar) /\ SubSeq(d, 1, Len(TokVar)) = TokVar)
    IN [p \in DOMAIN ds |-> split_ascii_whitespace(ds[p])[4]]

\* C9: within one input, every `$var` declaration is emitted with the new
\* IdCode the first declaration of its old IdCode was given, which is the
\* one the symbol map holds for the old IdCode.
AliasesShareCode ==
    \A i \in DOMAIN vcds :
        LET ids == EmittedIds(i)
            vs == vcds[i].vars
        IN /\ Len(ids) = Len(vs)
           /\ \A p, q \in DOMAIN vs :
                 (p <= q /\ vs[p].old_id = vs[q].old_id) =>
                     /\ ids[q] = ids[p]
                     /\ ids[q] = as_bytes(vs[p].new_id)
                     /\ vcds[i].symbol_map[vs[q].old_id] = vs[p].new_id

\* C9 witness: a finished run with an input that declares one old IdCode
\* twice, another old IdCode between the two.
AliasesShareCodeWitness ==
    /\ pc = "done"
    /\ \E i \in DOMAIN vcds :
          \E p, q, x \in DOMAIN vcds[i].vars :
              /\ p < x /\ x < q
              /\ vcds[i].vars[p].old_id = vcds[i].vars[q].old_id
              /\ vcds[i].vars[p].old_id # vcds[i].vars[x].old_id

\* The declarations that drew a code from next_code: <<i, p>> for the
\* p-th `$var` of input i when no earlier `$var` of i has its old IdCode.
Drawn ==
    {x \in UNION {{<<i, p>> : p \in DOMAIN vcds[i].vars} : i \in DOMAIN vcds} :
        \A q \in 1..(x[2] - 1) :
            vcds[x[1]].vars[q].old_id # vcds[x[1]].vars[x[2]].old_id}

\* The number of IdCodes of the alphabet and width.
RECURSIVE CodesOfWidth(_)
CodesOfWidth(w) ==
    IF w = 0 THEN 0
    ELSE (LastCodeByte - FirstCodeByte + 1) ^ w + CodesOfWidth(w - 1)

\* C11: no two calls of next_code return the same IdCode, so no more codes
\* are drawn in a run than the alphabet and width have.
AllocatorNeverRepeats ==
    /\ \A x, y \in Drawn :
          x # y => vcds[x[1]].vars[x[2]].new_id # vcds[y[1]].vars[y[2]].new_id
    /\ Cardinality(Drawn) <= CodesOfWidth(CodeWidth)

\* The old IdCode of a value-change line of an input: the text after the
\* first space of a `b` or `r` line, after the first byte of another line.
OldSymbol(line) ==
    IF line[1] \in {B.b, B.r} THEN From(line, FindIn(line, 1, {B.space}) + 1)
    ELSE From(line, 2)
ValuePrefix(line) == SubSeq(line, 1, Len(line) - Len(OldSymbol(line)))

\* The IdCodes the `$var` lines of the output prelude declare for input i.
PreludeIds(i) ==
    {split_ascii_whitespace(out[k].text)[4] :
        k \in {x \in 1..Len(out) :
                  /\ out[x].line = 0
                  /\ out[x].vcd = i
                  /\ Len(out[x].text) >= Len(TokVar)
                  /\ SubSeq(out[x].text, 1, Len(TokVar)) = TokVar}}

\* C12: every value-change line written is the value prefix of its input
\* line followed by the new IdCode the symbol map of its input holds for the
\* old IdCode of the line, a code a `$var` line of the prelude declares for
\* that input; a run that finishes met no value change without a mapping.
ValueChangesTranslated ==
    /\ \A p \in ChangeAt :
          LET i == out[p].vcd
              line == files[i][out[p].line]
              old == OldSymbol(line)
          IN /\ IdCodeFits(old)
             /\ IdCodeFrom(old) \in DOMAIN vcds[i].symbol_map
             /\ out[p].text = ValuePrefix(line) \o as_bytes(vcds[i].symbol_map[IdCodeFrom(old)])
             /\ as_bytes(vcds[i].symbol_map[IdCodeFrom(old)]) \in PreludeIds(i)
    /\ pc = "done" =>
          \A i \in DOMAIN vcds : \A k \in ChangesOf(i) :
              ScaledTs(i, k) >= 0 =>
                  IdCodeFrom(OldSymbol(files[i][k])) \in DOMAIN vcds[i].symbol_map

\* C12 witness: a run that wrote a scalar change under a new IdCode other
\* than its old one and then aborted at a vector line without a mapping.
ValueChangesTranslatedWitness ==
    /\ pc = "panic"
    /\ \E p \in ChangeAt :
          /\ out[p].text # files[out[p].vcd][out[p].line]
          /\ \E k \in ChangesOf(out[p].vcd) :
                /\ k > out[p].line
                /\ files[out[p].vcd][k][1] = B.b
                /\ IdCodeFrom(OldSymbol(files[out[p].vcd][k]))
                      \notin DOMAIN vcds[out[p].vcd].symbol_map

(***************************************************************************)
(* Properties of the end of the prelude (specification SpecPrelude).       *)
(***************************************************************************)
\* The first token of a line (<<>>: none), and the first line of input i
\* that does not start with a directive the prelude loop goes on after.
FirstToken(line) ==
    IF split_ascii_whitespace(line) = <<>> THEN <<>> ELSE split_ascii_whitespace(line)[1]
PreludeStop(i) ==
    Least({k \in 1..Len(files[i]) :
              FirstToken(files[i][k]) \notin
                  {<<>>, TokDate, TokVersion, TokTimescale, TokScope, TokVar, TokUpscope}})

\* C13: when the prelude of an input is ended by `$dumpvars` or by an
\* unrecognised token, the body starts with the line holding that token, and
\* find_sections opens a section at that line when it is a `#` line; when it
\* is ended by `$enddefinitions $end` the body starts after that line.
BodyStartsAtEndingLine ==
    \A i \in DOMAIN vcds :
        LET k == PreludeStop(i)
        IN IF files[i][k] = EnddefinitionsLine
           THEN vcds[i].end_of_definitions = k
           ELSE FirstToken(files[i][k]) # TokEnddefinitions =>
                   /\ vcds[i].end_of_definitions = k - 1
                   /\ (pc = "write" /\ IsTimestamp(files[i][k])) =>
                         \E x \in DOMAIN sections :
                             sections[x].vcd = i /\ sections[x].start = k

(***************************************************************************)
(* Properties of find_sections (specification Spec), stated of the         *)
(* sections as find_sections returned them (pc = "write").                 *)
(***************************************************************************)
\* The timestamp lines of the body of input i, the one before line k, and
\* the lines find_sections is to start a section at: the first timestamp
\* line and every one smaller than the timestamp line before it.
StampsOf(i) == {k \in BodyOf(i) : IsTimestamp(files[i][k])}
StampBefore(i, k) == CHOOSE j \in StampsOf(i) : j < k /\ \A x \in StampsOf(i) : x < k => x <= j
CutsOf(i) ==
    {k \in StampsOf(i) :
        \/ \A j \in StampsOf(i) : k <= j
        \/ /\ \E j \in StampsOf(i) : j < k
           /\ ScaledTs(i, k) < ScaledTs(i, StampBefore(i, k))}
SectionsOf(i) == {x \in DOMAIN sections : sections[x].vcd = i}

\* C14: the sections of an input start exactly at its first timestamp line
\* and at the timestamp lines smaller than the one before; each is tagged
\* with the scaled value of its first line, reaches to the next start, holds
\* non-decreasing timestamps, and the sections are in input, then file order.
SectionsCutAtRegressions ==
    pc = "write" =>
        /\ \A i \in DOMAIN vcds : {sections[x].start : x \in SectionsOf(i)} = CutsOf(i)
        /\ \A x \in DOMAIN sections :
              LET i == sections[x].vcd
                  a == sections[x].start
                  b == sections[x].end
              IN /\ IsTimestamp(files[i][a])
                 /\ sections[x].value = ScaledTs(i, a)
                 /\ sections[x].first_ts = ScaledTs(i, a)
                 /\ \A j, k \in StampsOf(i) :
                       (a <= j /\ j <= k /\ k < b) => ScaledTs(i, j) <= ScaledTs(i, k)
                 /\ \/ b = Len(files[i]) + 1
                    \/ /\ b \in StampsOf(i)
                       /\ ScaledTs(i, b) < ScaledTs(i, StampBefore(i, b))
        /\ \A x, y \in DOMAIN sections :
              x < y => \/ sections[x].vcd < sections[y].vcd
                       \/ /\ sections[x].vcd = sections[y].vcd
                          /\ sections[x].start < sections[y].start

\* C14 witness: find_sections returned two sections of one input, the first
\* holding a repeated timestamp and a larger one before the regression.
SectionsCutAtRegressionsWitness ==
    /\ pc = "write"
    /\ \E x, y \in DOMAIN sections :
          /\ x < y
          /\ sections[x].vcd = sections[y].vcd
          /\ \E j, k, l \in StampsOf(sections[x].vcd) :
                /\ sections[x].start <= j /\ j < k /\ k < l /\ l < sections[x].end
                /\ ScaledTs(sections[x].vcd, j) = ScaledTs(sections[x].vcd, k)
                /\ ScaledTs(sections[x].vcd, k) < ScaledTs(sections[x].vcd, l)

\* C19: the sections of an input are consecutive ranges of lines that
\* together hold exactly the lines from its first timestamp line to the end
\* of the file, each line in one section; an input without a timestamp line
\* has no section.
SectionsPartitionBody ==
    pc = "write" =>
        \A i \in DOMAIN vcds :
            /\ StampsOf(i) = {} => SectionsOf(i) = {}
            /\ \A x \in SectionsOf(i) : sections[x].start < sections[x].end
            /\ \A k \in BodyOf(i) :
                  Cardinality({x \in SectionsOf(i) :
                                  sections[x].start <= k /\ k < sections[x].end})
                  = IF \E j \in StampsOf(i) : j <= k THEN 1 ELSE 0
            /\ \A x \in SectionsOf(i) :
                  /\ sections[x].end <= Len(files[i]) + 1
                  /\ sections[x].start > vcds[i].end_of_definitions
                  /\ \/ sections[x].end = Len(files[i]) + 1
                     \/ x + 1 \in SectionsOf(i) /\ sections[x + 1].start = sections[x].end

\* C19 witness: find_sections returned two sections of an input whose body
\* starts with a value change, and no section of another input whose body has
\* no timestamp line.
SectionsPartitionBodyWitness ==
    /\ pc = "write"
    /\ \E i, j \in DOMAIN vcds :
          /\ Cardinality(SectionsOf(i)) >= 2
          /\ \E k \in ChangesOf(i) : StampsUpTo(i, k) = {}
          /\ ChangesOf(j) # {}
          /\ StampsOf(j) = {}
          /\ SectionsOf(j) = {}

(***************************************************************************)
(* Properties of the output timescale (specification SpecScale).           *)
(***************************************************************************)
\* The coarsest unit whose femtoseconds divide g.
CoarsestUnit(g) ==
    CHOOSE u \in UnitNames :
        /\ g % UnitFactor[u] = 0
        /\ \A v \in UnitNames : g % UnitFactor[v] = 0 => UnitFactor[v] <= UnitFactor[u]

\* Whether text is the number n in decimal, without a leading zero, and then
\* the letters of unit.
IsNumberAndUnit(text, n, unit) ==
    LET d == Len(text) - Len(UnitText[unit])
    IN /\ d >= 1
       /\ \A k \in 1..d : text[k] \in Digits
       /\ text[1] # B.zero
       /\ DecimalValue(SubSeq(text, 1, d)) = n
       /\ From(text, d + 1) = UnitText[unit]

\* C15: once parse_headers has returned, the output timescale string is
\* g / U and the unit of U, for g the gcd of the inputs' femtoseconds and U
\* the coarsest unit dividing g, the multiplier of each input is its
\* femtoseconds over g, and write_output writes that string after
\* "$timescale ".
CoarsestTimescaleString ==
    pc \in {"find", "write", "merge", "done"} =>
        LET g == GreatestCommonDivisor
            unit == CoarsestUnit(g)
        IN /\ Len(header.timescale) = 1
           /\ IsNumberAndUnit(header.timescale[1], g \div UnitFactor[unit], unit)
           /\ \A i \in DOMAIN vcds : vcds[i].timescale * g = vcds[i].fs
           /\ pc \in {"merge", "done"} =>
                 \E k \in 1..Len(out) :
                     out[k].text = TokTimescale \o <<B.space>> \o header.timescale[1] \o TokEnd

\* C15 witness: a finished run of two inputs of different units whose gcd is
\* three of the finer unit ("3ps"), with multipliers 2 and 1.
CoarsestTimescaleStringWitness ==
    /\ pc = "done"
    /\ Len(vcds) = 2
    /\ vcds[1].timescale = Kilo
    /\ vcds[2].timescale = 1
    /\ header.timescale = <<<<B.zero + 3, B.p, B.s>>>>
    /\ TsAt # {}

(***************************************************************************)
(* Properties of the merge loop (specifications SpecFair and Spec).        *)
(***************************************************************************)
\* The sections the heap holds an entry of.
HeapIndices(h) == {e[2] : e \in h}

\* An iteration that pops the top entry e: the rest of its section holds no
\* timestamp line.
PopsTop(e) ==
    /\ heap' = heap \ {e}
    /\ sections' = sections
    /\ \A k \in (sections[e[2]].start + 1)..(sections[e[2]].end - 1) :
          ~IsTimestamp(files[sections[e[2]].vcd][k])

\* An iteration that replaces the top entry e by an entry of the same
\* section, advanced to a later line of it.
AdvancesTop(e) ==
    /\ \E v \in 0..(Word - 1) : heap' = (heap \ {e}) \cup {<<v, e[2]>>}
    /\ HeapIndices(heap') = HeapIndices(heap)
    /\ sections'[e[2]].start > sections[e[2]].start
    /\ sections'[e[2]].start < sections[e[2]].end
    /\ sections'[e[2]].end = sections[e[2]].end
    /\ \A x \in DOMAIN sections : x # e[2] => sections'[x] = sections[x]

\* C16: every iteration of the merge loop pops the top entry at the end of
\* its section or replaces it by the same section with fewer lines left, no
\* section comes back into the heap, and the loop ends with the heap empty.
MergeLoopTerminates ==
    /\ [][pc = "merge" =>
            \/ heap = {} /\ heap' = {} /\ pc' = "done"
            \/ /\ heap # {}
               /\ pc' = "merge"
               /\ PopsTop(HeapPeek(heap)) \/ AdvancesTop(HeapPeek(heap))]_vars
    /\ [](pc = "merge" => Cardinality(heap) = Cardinality(HeapIndices(heap)))
    /\ (pc = "merge") ~> (pc = "done" /\ heap = {})

\* C16 witness: a finished run of three sections or more, one of which was
\* advanced twice before it was popped.
MergeLoopTerminatesWitness ==
    /\ pc = "done"
    /\ heap = {}
    /\ Len(sections) >= 3
    /\ \E a, b, c \in DOMAIN visits :
          a < b /\ b < c /\ visits[a][2] = visits[b][2] /\ visits[b][2] = visits[c][2]

\* The timestamp lines of section x as find_sections cut it, from the end of
\* the section before it in its input (write_output moves the start of a
\* section, not its end), and the iterations the loop spent on x.
SectionStamps(x) ==
    LET i == sections[x].vcd
        first == IF x > 1 /\ sections[x - 1].vcd = i THEN sections[x - 1].end
                 ELSE vcds[i].end_of_definitions + 1
    IN {k \in StampsOf(i) : first <= k /\ k < sections[x].end}
Visited(x) == Cardinality({a \in DOMAIN visits : visits[a][2] = x})

\* C17: at every peek of the merge loop the heap holds one entry for each
\* section with a timestamp line the loop has not spent an iteration on, and
\* no other; the section of an entry starts at the first such line, a `#`
\* line, and the entry's value is the scaled value of that line.
HeapTracksCursors ==
    pc = "merge" =>
        /\ HeapIndices(heap) =
              {x \in DOMAIN sections : Visited(x) < Cardinality(SectionStamps(x))}
        /\ Cardinality(heap) = Cardinality(HeapIndices(heap))
        /\ \A e \in heap :
              LET x == e[2]
                  i == sections[x].vcd
                  a == sections[x].start
              IN /\ a < sections[x].end
                 /\ IsTimestamp(files[i][a])
                 /\ e[1] = ScaledTs(i, a)
                 /\ e[1] = sections[x].value
                 /\ Cardinality({k \in SectionStamps(x) : k < a}) = Visited(x)

\* C17 witness: a peek with two entries in the heap, one of a section
\* already advanced, after another section was popped.
HeapTracksCursorsWitness ==
    /\ pc = "merge"
    /\ Cardinality(heap) >= 2
    /\ \E e \in heap : Visited(e[2]) >= 1
    /\ \E x \in DOMAIN sections : x \notin HeapIndices(heap)

\* C18: every value-change line written has a `#ts` line written before
\* it, and the last such line carries the scaled value of the `#` line that
\* last precedes the value change in its input.
ChangesUnderTheirTimestamp ==
    \A p \in ChangeAt :
        \E a \in TsAt :
            /\ a < p
            /\ \A b \in TsAt : b < p => b <= a
            /\ Tail(out[a].text) # <<>>
            /\ WrittenTs(a) = TsOf(p)

\* C18 witness: a finished run with a value change whose timestamp line was
\* written for another section, its own being suppressed as a duplicate.
ChangesUnderTheirTimestampWitness ==
    /\ pc = "done"
    /\ \E p \in ChangeAt :
          \E a \in TsAt :
              /\ a < p
              /\ \A b \in TsAt : b < p => b <= a
              /\ out[a].sec # out[p].sec
              /\ out[a].vcd # out[p].vcd

====
